---- MODULE Spec2Model ----
(***************************************************************************)
(* Model of meme-ingester: the express server (server.js, latest revision  *)
(* in src/unnamed/part_002) and its SQLite store (db.js,                   *)
(* src/unnamed/part_004).                                                  *)
(*                                                                         *)
(* A JavaScript string is held in the state as a string; characters gives  *)
(* its characters, on which trim, includes and the URL parser work.  The    *)
(* character "LONG" stands for a run of LongRun letters 'x', so that        *)
(* url.length can exceed MAX_URL_LENGTH.  Every request handler runs synchronously up to  *)
(* its first await; each later action is the database executing the       *)
(* awaited statement followed by the handler's continuation up to the next *)
(* await (the continuation touches request-local state only).  A request  *)
(* is in the bag req while it awaits the database; the step that sends its *)
(* response takes it out and shows the response in variable response for   *)
(* that one step.  The rate limiter (100 requests per 15      *)
(* minutes) is out of reach of the bounds and is left out.                 *)
(***************************************************************************)
EXTENDS Integers, Sequences, FiniteSets, Bags, TLC

\* ------------------------------------------------------------------ bounds
MaxReq == 2          \* requests in flight at once
MaxPages == 1        \* page loads (session tokens issued) in one run
MaxTicks == 9        \* advances of the clock in one run

\* ------------------------------------------------------- program constants
MAX_URL_LENGTH == 2048
SESSION_EXPIRY == 3600000
MAX_TOKENS == 1000
CLEANUP_INTERVAL == 1800000
LongRun == 2040

\* --------------------------------------------------------------- strings
\* the characters of the strings the model uses (the raw URLs of the requests
\* and the normalized URLs)
characters ==
  [str \in {""} |-> <<>>] @@
  ("http://a/m"      :> <<"h","t","t","p",":","/","/","a","/","m">>) @@
  ("http://a/m?x"    :> <<"h","t","t","p",":","/","/","a","/","m","?","x">>) @@
  ("http://a/m#LONG" :> <<"h","t","t","p",":","/","/","a","/","m","#","LONG">>) @@
  ("http://a/m?LONG" :> <<"h","t","t","p",":","/","/","a","/","m","?","LONG">>) @@
  ("http://a/m?<"    :> <<"h","t","t","p",":","/","/","a","/","m","?","<">>) @@
  (" Http://A/m#x "  :> <<" ","H","t","t","p",":","/","/","A","/","m","#","x"," ">>) @@
  ("http://a/b"      :> <<"h","t","t","p",":","/","/","a","/","b">>) @@
  ("http://a/b#x"    :> <<"h","t","t","p",":","/","/","a","/","b","#","x">>) @@
  ("http://a/b?<"    :> <<"h","t","t","p",":","/","/","a","/","b","?","<">>) @@
  ("http://a"        :> <<"h","t","t","p",":","/","/","a">>) @@
  ("http://a/"       :> <<"h","t","t","p",":","/","/","a","/">>) @@
  ("https://a/m"     :> <<"h","t","t","p","s",":","/","/","a","/","m">>) @@
  ("ftp://a/m"       :> <<"f","t","p",":","/","/","a","/","m">>) @@
  ("a/m"             :> <<"a","/","m">>)

Chars(str) == characters[str]

\* the string whose characters are cs
FromChars(cs) ==
  IF \E str \in DOMAIN characters : characters[str] = cs
  THEN CHOOSE str \in DOMAIN characters : characters[str] = cs
  ELSE "?"

Width(c) == IF c = "LONG" THEN LongRun ELSE 1

RECURSIVE StrLength(_)
StrLength(s) == IF s = <<>> THEN 0 ELSE Width(Head(s)) + StrLength(Tail(s))

Whitespace == {" "}
Upper == {"A", "H"}
Letters == {"a", "b", "f", "h", "m", "p", "s", "t", "x", "LONG"} \cup Upper

ToLowerChar(c) == CASE c = "A" -> "a" [] c = "H" -> "h" [] OTHER -> c
ToLower(s) == [i \in 1..Len(s) |-> ToLowerChar(s[i])]

\* index of the first element of s that lies in set cs, Len(s)+1 when none
FirstIn(s, cs) ==
  IF \E i \in 1..Len(s) : s[i] \in cs
  THEN CHOOSE i \in 1..Len(s) : s[i] \in cs /\ \A j \in 1..(i-1) : s[j] \notin cs
  ELSE Len(s) + 1

Includes(s, c) == \E i \in 1..Len(s) : s[i] = c

\* String.prototype.trim
Trim(s) ==
  IF \A i \in 1..Len(s) : s[i] \in Whitespace THEN <<>>
  ELSE LET a == CHOOSE i \in 1..Len(s) :
                   s[i] \notin Whitespace /\ \A j \in 1..(i-1) : s[j] \in Whitespace
           b == CHOOSE i \in 1..Len(s) :
                   s[i] \notin Whitespace /\ \A j \in (i+1)..Len(s) : s[j] \in Whitespace
       IN SubSeq(s, a, b)

\* ------------------------------------------------------------ URL parsing
ParseFailure == [ok |-> FALSE, protocol |-> <<>>, host |-> <<>>, pathname |-> <<>>]

\* number of leading slashes of s
LeadingSlashes(s) ==
  IF \A i \in 1..Len(s) : s[i] = "/" THEN Len(s)
  ELSE (CHOOSE i \in 1..Len(s) : s[i] # "/" /\ \A j \in 1..(i-1) : s[j] = "/") - 1

\* percent-encoding of the path: a space becomes %20
EncodePath(s) == [i \in 1..Len(s) |-> IF s[i] = " " THEN "%20" ELSE s[i]]

\* new URL(input) without a base (WHATWG basic URL parser), for the
\* characters of the model's alphabet
ParseURL(input) ==
  LET colon == FirstIn(input, {":"})
      scheme == ToLower(SubSeq(input, 1, colon - 1))
  IN IF \/ input = <<>>
        \/ colon > Len(input)
        \/ colon = 1
        \/ \E i \in 1..(colon - 1) : input[i] \notin Letters
     THEN ParseFailure       \* no scheme and no base
     ELSE
       LET afterScheme == SubSeq(input, colon + 1, Len(input))
           rest == SubSeq(afterScheme, LeadingSlashes(afterScheme) + 1, Len(afterScheme))
           authEnd == FirstIn(rest, {"/", "?", "#"})
           authority == SubSeq(rest, 1, authEnd - 1)
           portAt == FirstIn(authority, {":"})
           hostname == ToLower(SubSeq(authority, 1, portAt - 1))
           port == SubSeq(authority, portAt + 1, Len(authority))
           afterAuth == SubSeq(rest, authEnd, Len(rest))
           pathEnd == FirstIn(afterAuth, {"?", "#"})
           path == SubSeq(afterAuth, 1, pathEnd - 1)
       IN IF \/ hostname = <<>>
             \/ \E i \in 1..Len(hostname) : hostname[i] \notin Letters
             \/ port # <<>>     \* the alphabet has no digits: any port is invalid
          THEN ParseFailure
          ELSE [ok |-> TRUE,
                protocol |-> scheme \o <<":">>,
                host |-> hostname,
                pathname |-> IF path = <<>> THEN <<"/">> ELSE EncodePath(path)]

Thrown == [threw |-> TRUE, value |-> ""]
Returned(v) == [threw |-> FALSE, value |-> v]

\* processUrl returning parsedUrl.href: query string and fragment are kept
processUrlHref(url) ==
  LET freshUrl == Trim(Chars(url))
      parsedUrl == ParseURL(freshUrl)
  IN IF Includes(freshUrl, "<") \/ Includes(freshUrl, ">") THEN Thrown
     ELSE IF ~parsedUrl.ok THEN Thrown
     ELSE IF parsedUrl.protocol \notin {<<"h","t","t","p",":">>, <<"h","t","t","p","s",":">>}
          THEN Thrown
     ELSE Returned(FromChars(freshUrl))

\* processUrl without its checks on the characters and on the protocol
processUrlUnchecked(url) ==
  LET parsedUrl == ParseURL(Trim(Chars(url)))
  IN IF ~parsedUrl.ok THEN Thrown
     ELSE Returned(FromChars(parsedUrl.protocol \o <<"/", "/">> \o parsedUrl.host
                             \o parsedUrl.pathname))

\* processUrl(url): the normalized URL, or a throw
processUrl(url) ==
  LET freshUrl == Trim(Chars(url))
      parsedUrl == ParseURL(freshUrl)
  IN IF Includes(freshUrl, "<") \/ Includes(freshUrl, ">") THEN Thrown
     ELSE IF ~parsedUrl.ok THEN Thrown
     ELSE IF parsedUrl.protocol \notin {<<"h","t","t","p",":">>, <<"h","t","t","p","s",":">>}
          THEN Thrown
     ELSE Returned(FromChars(parsedUrl.protocol \o <<"/", "/">> \o parsedUrl.host
                             \o parsedUrl.pathname))

\* processUrl on the URLs of a set, computed once
ProcessedUrlsRaw(urls) == [u \in urls |-> Returned(u)]

ProcessedUrls(urls) == [u \in urls |-> processUrl(u)]

\* crypto.createHash("sha256").update(s).digest("hex"): collision-free digest
sha256(s) == <<"sha256", s>>

\* new Date(t).toISOString()
toISOString(t) == <<"iso", t>>


\* ------------------------------------------------------------------ state
VARIABLES
  db,             \* the db handle of db.js: "undefined", "opened", "table", "idx_hash", "ready"
  links,          \* rows of table links: [id, url, datetime, flag, hash]
  autoincrement,  \* AUTOINCREMENT counter of table links
  sessionTokens,  \* the Map token -> timestamp, in insertion order, as runs
                  \* [first, last, timestamp] of tokens issued one after the other
                  \* at the same reading of the clock
  pages,          \* number of page loads so far (the next token is fresh)
  issued,         \* history: every token set in the Map, as runs in order of issue
  now,            \* Date.now()
  lastSweep,      \* time the cleanup timer last fired
  API_KEY,        \* process.env.API_KEY
  req,            \* the requests awaiting the database: inputs, position in the handler, locals
  response,       \* the response this step sent, with the request it answers
  linkSaved,      \* history: hash -> number of "Link saved successfully" responses
  markedComplete, \* history: id -> number of "Record marked as complete" responses
  answered        \* history: the answers of duplicate-check so far, as
                  \* <<cookie, hash, isDuplicate>>, kept where on is set

vars == <<db, links, autoincrement, sessionTokens, pages, issued, now, lastSweep, API_KEY, req,
          response, linkSaved, markedComplete, answered>>

InFlight == BagToSet(req)
undefined == "undefined"

\* the raw URLs requests carry; "" is a missing url field
Urls == {"", "http://a/m", "http://a/m?x", " Http://A/m#x ", "http://a/b", "http://a/m?<",
         "ftp://a/m", "a/m", "http://a/m?LONG", "http://a", "http://a/", "https://a/m"}

\* the raw URLs of the requests to the record store
StoreUrls == {"http://a/m", "http://a/m?x", "http://a/b#x", "http://a/b?<", "http://a/m#LONG"}

AllUrls == Urls \cup StoreUrls
processed == ProcessedUrls(AllUrls)

NormalizedOf(urls) == {processed[u].value : u \in {v \in urls : ~processed[v].threw}}
\* hash fields of worker requests: missing, or the digest of some normalized URL
HashesOf(urls) == {<<>>} \cup {sha256(n) : n \in NormalizedOf(urls)}
Ids == 0..2                      \* 0 is a missing (falsy) id
Cookies == 0..(MaxPages + 1)     \* 0 is no cookie; token k is issued by the k-th page load
ApiKeys == {undefined, "secret", "wrong"}

\* ---------------------------------------------------------------- responses
Response(status, error) ==
  [status |-> status, error |-> error, success |-> FALSE, isDuplicate |-> FALSE, records |-> <<>>]
NoResponse == Response(0, "")
Success == [Response(200, "") EXCEPT !.success = TRUE]
DuplicateLink == [Response(409, "Duplicate link") EXCEPT !.isDuplicate = TRUE]

TypeErrorMessage == "Cannot read properties of undefined"
NoTableMessage == "SQLITE_ERROR: no such table: links"

\* the body without res.status(...)
handleServerErrorNoStatus(message, defaultMessage) ==
  Response(200, IF message # "" THEN message ELSE defaultMessage)

\* handleServerError(res, error, defaultMessage)
handleServerError(message, defaultMessage) ==
  Response(500, IF message # "" THEN message ELSE defaultMessage)

\* raw is req.query.url / req.body.url as received; url, hash and datetime are
\* the handler's locals
Idle == [kind |-> "none", pc |-> "idle", cookie |-> 0, apiKey |-> undefined, raw |-> "",
         url |-> "", id |-> 0, hash |-> <<>>, datetime |-> <<>>, resp |-> NoResponse]

\* the handler sends resp: res.json(...)
Reply(q, resp) == [q EXCEPT !.pc = "done", !.resp = resp]

\* the handler awaits the database at pc
Await(q, pc) == [q EXCEPT !.pc = pc]

Awaiting(q) == IF q.pc = "done" THEN EmptyBag ELSE SetToBag({q})

\* the handler of a fresh request has run up to its first await, or to its response
Began(q) ==
  /\ req' = req (+) Awaiting(q)
  /\ response' = IF q.pc = "done" THEN q ELSE Idle

\* in-flight request r has run up to its next await, or to its response, as q
Ran(r, q) ==
  /\ req' = (req (-) SetToBag({r})) (+) Awaiting(q)
  /\ response' = IF q.pc = "done" THEN q ELSE Idle

\* ------------------------------------------------------------ the Map
\* sessionTokens.set(token, timestamp) of a fresh token adds this entry
Entry(token, timestamp) == [first |-> token, last |-> token, timestamp |-> timestamp]

\* sessionTokens.has(token)
Has(tokens, token) ==
  \E i \in 1..Len(tokens) : tokens[i].first <= token /\ token <= tokens[i].last

\* sessionTokens.size
RunSize(e) == e.last - e.first + 1
RECURSIVE MapSize(_)
MapSize(tokens) ==
  IF tokens = <<>> THEN 0 ELSE RunSize(Head(tokens)) + MapSize(Tail(tokens))

\* ------------------------------------------------------------- middleware
\* the guard letting every request with a cookie pass
SessionOkAnyCookie(cookie) == cookie # 0

\* the guard also refusing a token older than SESSION_EXPIRY
SessionOkFresh(cookie) ==
  /\ cookie # 0
  /\ \E i \in 1..Len(sessionTokens) :
        /\ sessionTokens[i].first <= cookie /\ cookie <= sessionTokens[i].last
        /\ now - sessionTokens[i].timestamp <= SESSION_EXPIRY

\* checkSessionToken: next() is called
SessionOk(cookie) ==
  cookie # 0 /\ Has(sessionTokens, cookie)

\* the gate comparing the keys only, without the test for a missing key
ApiKeyOkCompareOnly(providedApiKey) == providedApiKey = API_KEY

\* checkApiKey: next() is called
ApiKeyOk(providedApiKey) ==
  ~(providedApiKey = undefined \/ providedApiKey # API_KEY)

\* a fresh request may start
CanBegin == response = Idle /\ BagCardinality(req) < MaxReq

Init ==
  /\ db = undefined
  /\ links = {}
  /\ autoincrement = 0
  /\ sessionTokens = <<>>
  /\ pages = 0
  /\ issued = <<>>
  /\ now = 0
  /\ lastSweep = 0
  /\ API_KEY = "secret"
  /\ req = EmptyBag
  /\ response = Idle
  /\ linkSaved = [h \in HashesOf(AllUrls) |-> 0]
  /\ markedComplete = [i \in Ids |-> 0]
  /\ answered = [on |-> FALSE, seen |-> {}]

\* ------------------------------------------------------------------ db.js
\* dbInitialise: open() resolves, db is assigned and CREATE TABLE is issued
DbOpen ==
  /\ response = Idle
  /\ db = undefined
  /\ db' = "opened"
  /\ response' = Idle
  /\ UNCHANGED <<links, autoincrement, sessionTokens, pages, issued, now, lastSweep, API_KEY, req,
                 linkSaved, markedComplete, answered>>

\* dbInitialise: CREATE TABLE IF NOT EXISTS links (...) has run
DbCreateTable ==
  /\ response = Idle
  /\ db = "opened"
  /\ db' = "table"
  /\ response' = Idle
  /\ UNCHANGED <<links, autoincrement, sessionTokens, pages, issued, now, lastSweep, API_KEY, req,
                 linkSaved, markedComplete, answered>>

\* dbInitialise: CREATE INDEX IF NOT EXISTS idx_hash ON links (hash) has run
DbCreateIndexHash ==
  /\ response = Idle
  /\ db = "table"
  /\ db' = "idx_hash"
  /\ response' = Idle
  /\ UNCHANGED <<links, autoincrement, sessionTokens, pages, issued, now, lastSweep, API_KEY, req,
                 linkSaved, markedComplete, answered>>

\* dbInitialise: CREATE INDEX IF NOT EXISTS idx_flag ON links (flag) has
\* run and dbInitialise returns
DbCreateIndexFlag ==
  /\ response = Idle
  /\ db = "idx_hash"
  /\ db' = "ready"
  /\ response' = Idle
  /\ UNCHANGED <<links, autoincrement, sessionTokens, pages, issued, now, lastSweep, API_KEY, req,
                 linkSaved, markedComplete, answered>>

\* the links table exists: statements on it run
TableExists == db \in {"table", "idx_hash", "ready"}

\* dbInitialise has returned
Initialised == db = "ready"

\* dbGetRecordsByHash / dbGetRecordById: db.get returns the first row or undefined
RowsByHashAll(hash) == links

RowsByHash(hash) == {l \in links : l.hash = hash}
RowsById(id) == {l \in links : l.id = id}

\* the table without the UNIQUE constraint on hash
NoUniqueConstraint(hash) == FALSE

\* uniqueness enforced among the new rows only
UniqueAmongNew(hash) == \E l \in links : l.hash = hash /\ l.flag = "N"

\* INSERT INTO links (url, datetime, flag, hash): hash TEXT NOT NULL UNIQUE
ViolatesUnique(hash) == RowsByHash(hash) # {}

\* the row inserted with the flag of a completed record
InsertedRowComplete(url, datetime, flag, hash) ==
  [id |-> autoincrement + 1, url |-> url, datetime |-> datetime, flag |-> "C", hash |-> hash]

\* dbSaveLink: the row INSERT adds, id INTEGER PRIMARY KEY AUTOINCREMENT
InsertedRow(url, datetime, flag, hash) ==
  [id |-> autoincrement + 1, url |-> url, datetime |-> datetime, flag |-> flag, hash |-> hash]

\* dbMarkRecordComplete: UPDATE links SET flag = 'C', url = '' WHERE id = ?
\* the UPDATE without its WHERE clause
UpdateMatchesAll(l, id) == TRUE
UpdateMatches(l, id) == l.id = id
\* the update also clearing the submission time
MarkedCompleteNoDatetime(l) == [l EXCEPT !.flag = "C", !.url = "", !.datetime = <<>>]
MarkedCompleteNoHash(l) == [l EXCEPT !.flag = "C", !.url = "", !.hash = <<>>]
MarkedComplete(l) == [l EXCEPT !.flag = "C", !.url = ""]

\* the query without its WHERE clause
IsAnyRow(l) == TRUE

\* dbGetNewRecords: SELECT id, url, datetime, hash FROM links WHERE flag = 'N'
IsNew(l) == l.flag = "N"
Projection(l) == [id |-> l.id, url |-> l.url, datetime |-> l.datetime, hash |-> l.hash]

\* rows of a set with the newest first
RECURSIVE NewestRowFirst(_)
NewestRowFirst(rows) ==
  IF rows = {} THEN <<>>
  ELSE LET first == CHOOSE l \in rows : \A m \in rows : l.id >= m.id
       IN <<first>> \o NewestRowFirst(rows \ {first})

\* rows of a set in rowid order
RECURSIVE InRowidOrder(_)
InRowidOrder(rows) ==
  IF rows = {} THEN <<>>
  ELSE LET first == CHOOSE l \in rows : \A m \in rows : l.id <= m.id
       IN <<first>> \o InRowidOrder(rows \ {first})

NewRecords(rows) ==
  LET new == InRowidOrder({l \in rows : IsNew(l)})
  IN [i \in 1..Len(new) |-> Projection(new[i])]

\* -------------------------------------------------------------- GET /
\* app.get("/"): a fresh random token is stored with the current time
GetRoot ==
  /\ response = Idle
  /\ pages < MaxPages
  /\ pages' = pages + 1
  /\ sessionTokens' = Append(sessionTokens, Entry(pages + 1, now))
  /\ issued' = Append(issued, Entry(pages + 1, now))
  /\ response' = [Idle EXCEPT !.kind = "page", !.pc = "done", !.cookie = pages + 1,
                              !.resp = Response(200, "")]
  /\ UNCHANGED <<db, links, autoincrement, now, lastSweep, API_KEY, req, linkSaved, markedComplete, answered>>

\* --------------------------------------------- GET /api/check-duplicate
CheckDuplicateBegin(cookie, url) ==
  /\ CanBegin
  /\ LET q == [Idle EXCEPT !.kind = "check-duplicate", !.cookie = cookie, !.raw = url]
         processedUrl == processed[url]
     IN Began(
          IF ~SessionOk(cookie) THEN Reply(q, Response(401, "Invalid session"))
          ELSE IF url = "" THEN Reply(q, Response(400, "URL is required"))
          ELSE IF StrLength(Chars(url)) > MAX_URL_LENGTH THEN Reply(q, Response(400, "URL is too long. Maximum length is 2048 characters."))
          ELSE IF processedUrl.threw \/ db = undefined
               THEN Reply(q, Response(500, "Error checking for duplicate"))
          ELSE Await([q EXCEPT !.url = processedUrl.value,
                               !.hash = sha256(processedUrl.value)], "dbGetRecordsByHash"))
  /\ UNCHANGED <<db, links, autoincrement, sessionTokens, pages, issued, now, lastSweep, API_KEY,
                 linkSaved, markedComplete, answered>>

CheckDuplicateGet(r) ==
  /\ response = Idle
  /\ r.pc = "dbGetRecordsByHash"
  /\ Ran(r,
       IF ~TableExists THEN Reply(r, Response(500, "Error checking for duplicate"))
       ELSE Reply(r, [Response(200, "") EXCEPT !.isDuplicate = RowsByHash(r.hash) # {}]))
  /\ answered' = IF answered.on /\ TableExists
                 THEN [answered EXCEPT !.seen = @ \cup {<<r.cookie, r.hash, RowsByHash(r.hash) # {}>>}]
                 ELSE answered
  /\ UNCHANGED <<db, links, autoincrement, sessionTokens, pages, issued, now, lastSweep, API_KEY,
                 linkSaved, markedComplete>>

\* ------------------------------------------------ POST /api/submit-link
SubmitLinkBegin(cookie, url) ==
  /\ CanBegin
  /\ LET q == [Idle EXCEPT !.kind = "submit-link", !.cookie = cookie, !.raw = url]
         processedUrl == processed[url]
     IN Began(
          IF ~SessionOk(cookie) THEN Reply(q, Response(401, "Invalid session"))
          ELSE IF url = "" THEN Reply(q, Response(400, "URL is required"))
          ELSE IF StrLength(Chars(url)) > MAX_URL_LENGTH THEN Reply(q, Response(400, "URL is too long. Maximum length is 2048 characters."))
          ELSE IF processedUrl.threw THEN Reply(q, Response(400, "Invalid URL"))
          ELSE IF db = undefined
               THEN Reply(q, handleServerError(TypeErrorMessage, "Error saving link"))
          ELSE Await([q EXCEPT !.url = processedUrl.value,
                               !.datetime = toISOString(now),
                               !.hash = sha256(processedUrl.value)], "dbSaveLink"))
  /\ UNCHANGED <<db, links, autoincrement, sessionTokens, pages, issued, now, lastSweep, API_KEY,
                 linkSaved, markedComplete, answered>>

SubmitLinkSave(r) ==
  /\ response = Idle
  /\ r.pc = "dbSaveLink"
  /\ IF ~TableExists
     THEN /\ Ran(r, Reply(r, handleServerError(NoTableMessage, "Error saving link")))
          /\ UNCHANGED <<links, autoincrement, linkSaved>>
     ELSE IF ViolatesUnique(r.hash)
     THEN /\ Ran(r, Reply(r, DuplicateLink))
          /\ UNCHANGED <<links, autoincrement, linkSaved>>
     ELSE /\ links' = links \cup {InsertedRow(r.url, r.datetime, "N", r.hash)}
          /\ autoincrement' = autoincrement + 1
          /\ Ran(r, Reply(r, Success))
          /\ linkSaved' = [linkSaved EXCEPT ![r.hash] = @ + 1]
  /\ UNCHANGED <<db, sessionTokens, pages, issued, now, lastSweep, API_KEY, markedComplete, answered>>

\* ------------------------------------------------- GET /api/new-records
NewRecordsBegin(apiKey) ==
  /\ CanBegin
  /\ LET q == [Idle EXCEPT !.kind = "new-records", !.apiKey = apiKey]
     IN Began(
          IF ~ApiKeyOk(apiKey) THEN Reply(q, Response(401, "Invalid API key"))
          ELSE IF db = undefined
               THEN Reply(q, handleServerError(TypeErrorMessage, "Error fetching new records"))
          ELSE Await(q, "dbGetNewRecords"))
  /\ UNCHANGED <<db, links, autoincrement, sessionTokens, pages, issued, now, lastSweep, API_KEY,
                 linkSaved, markedComplete, answered>>

NewRecordsGet(r) ==
  /\ response = Idle
  /\ r.pc = "dbGetNewRecords"
  /\ Ran(r,
       IF ~TableExists
       THEN Reply(r, handleServerError(NoTableMessage, "Error fetching new records"))
       ELSE Reply(r, [Response(200, "") EXCEPT !.records = NewRecords(links)]))
  /\ UNCHANGED <<db, links, autoincrement, sessionTokens, pages, issued, now, lastSweep, API_KEY,
                 linkSaved, markedComplete, answered>>

\* ----------------------------------------------- POST /api/mark-complete
MarkCompleteBegin(apiKey, id, hash) ==
  /\ CanBegin
  /\ LET q == [Idle EXCEPT !.kind = "mark-complete", !.apiKey = apiKey, !.id = id, !.hash = hash]
     IN Began(
          IF ~ApiKeyOk(apiKey) THEN Reply(q, Response(401, "Invalid API key"))
          ELSE IF id = 0 \/ hash = <<>>
               THEN Reply(q, Response(400, "Both id and hash are required"))
          ELSE IF db = undefined
               THEN Reply(q, handleServerError(TypeErrorMessage, "Error marking record as complete"))
          ELSE Await(q, "dbGetRecordById"))
  /\ UNCHANGED <<db, links, autoincrement, sessionTokens, pages, issued, now, lastSweep, API_KEY,
                 linkSaved, markedComplete, answered>>

\* the checks without the comparison of the hashes
MarkCompleteChecksNoHash(q, rows) ==
  IF rows = {} THEN Reply(q, Response(404, "Record not found"))
  ELSE LET record == CHOOSE l \in rows : TRUE
       IN IF record.flag # "N" THEN Reply(q, Response(400, "Record is not new"))
          ELSE Await(q, "dbMarkRecordComplete")

\* the checks with the flag looked at before the hash
MarkCompleteChecksFlagFirst(q, rows) ==
  IF rows = {} THEN Reply(q, Response(404, "Record not found"))
  ELSE LET record == CHOOSE l \in rows : TRUE
       IN IF record.flag # "N" THEN Reply(q, Response(400, "Record is not new"))
          ELSE IF record.hash # q.hash THEN Reply(q, Response(400, "ID and hash do not match"))
          ELSE Await(q, "dbMarkRecordComplete")

\* the checks of the handler on the record dbGetRecordById returned
MarkCompleteChecks(q, rows) ==
  IF rows = {} THEN Reply(q, Response(404, "Record not found"))
  ELSE LET record == CHOOSE l \in rows : TRUE
       IN IF record.hash # q.hash THEN Reply(q, Response(400, "ID and hash do not match"))
          ELSE IF record.flag # "N" THEN Reply(q, Response(400, "Record is not new"))
          ELSE Await(q, "dbMarkRecordComplete")

\* dbGetRecordById resolves; the checks on the record; dbMarkRecordComplete is issued
MarkCompleteGet(r) ==
  /\ response = Idle
  /\ r.pc = "dbGetRecordById"
  /\ Ran(r,
       IF ~TableExists
       THEN Reply(r, handleServerError(NoTableMessage, "Error marking record as complete"))
       ELSE MarkCompleteChecks(r, RowsById(r.id)))
  /\ UNCHANGED <<db, links, autoincrement, sessionTokens, pages, issued, now, lastSweep, API_KEY,
                 linkSaved, markedComplete, answered>>

\* dbMarkRecordComplete resolves; result.changes decides the response
MarkCompleteUpdate(r) ==
  /\ response = Idle
  /\ r.pc = "dbMarkRecordComplete"
  /\ LET matched == {l \in links : UpdateMatches(l, r.id)}
         changes == Cardinality(matched)
     IN /\ links' = (links \ matched) \cup {MarkedComplete(l) : l \in matched}
        /\ Ran(r, IF changes = 0 THEN Reply(r, Response(500, "Failed to update record"))
                  ELSE Reply(r, Success))
        /\ markedComplete' = IF changes = 0 THEN markedComplete
                             ELSE [markedComplete EXCEPT ![r.id] = @ + 1]
  /\ UNCHANGED <<db, autoincrement, sessionTokens, pages, issued, now, lastSweep, API_KEY, linkSaved,
                 answered>>

\* ----------------------------------------------- POST /api/mark-failed
\* no route matches: express answers with its default 404
MarkFailed(apiKey, id, hash) ==
  /\ CanBegin
  /\ Began( Reply([Idle EXCEPT !.kind = "mark-failed", !.apiKey = apiKey, !.id = id, !.hash = hash],
                  Response(404, "Cannot POST /api/mark-failed")))
  /\ UNCHANGED <<db, links, autoincrement, sessionTokens, pages, issued, now, lastSweep, API_KEY,
                 linkSaved, markedComplete, answered>>

\* ------------------------------------------------- cleanupSessionTokens
\* the comparison with its operands exchanged
ExpiredExchanged(entry, t) == entry.timestamp - t > SESSION_EXPIRY

Expired(entry, t) == t - entry.timestamp > SESSION_EXPIRY

\* position of run i when the newest entries are sorted first: (a, b) => b[1] - a[1]
NewestFirstRank(tokens, i) ==
  Cardinality({j \in 1..Len(tokens) :
                 \/ tokens[j].timestamp > tokens[i].timestamp
                 \/ tokens[j].timestamp = tokens[i].timestamp /\ j < i})

\* position of run i in [...sessionTokens.entries()].sort((a, b) => a[1] - b[1]):
\* the sort is stable and the entries of a run are adjacent and tied
SortedRank(tokens, i) ==
  Cardinality({j \in 1..Len(tokens) :
                 \/ tokens[j].timestamp < tokens[i].timestamp
                 \/ tokens[j].timestamp = tokens[i].timestamp /\ j < i})

RECURSIVE SizeOfRuns(_, _)
SizeOfRuns(tokens, js) ==
  IF js = {} THEN 0
  ELSE LET j == CHOOSE x \in js : TRUE
       IN RunSize(tokens[j]) + SizeOfRuns(tokens, js \ {j})

\* number of entries of run i within sortedTokens.slice(0, excess)
ToRemove(tokens, excess, i) ==
  LET before == SizeOfRuns(tokens, {j \in 1..Len(tokens) :
                                      SortedRank(tokens, j) < SortedRank(tokens, i)})
      left == IF excess > before THEN excess - before ELSE 0
  IN IF left > RunSize(tokens[i]) THEN RunSize(tokens[i]) ELSE left

\* the Map after sessionTokens.delete(token) for each token of tokensToRemove
RECURSIVE DeleteOldest(_, _, _)
DeleteOldest(tokens, excess, i) ==
  IF i > Len(tokens) THEN <<>>
  ELSE LET k == ToRemove(tokens, excess, i)
       IN (IF k = RunSize(tokens[i]) THEN <<>>
           ELSE <<[tokens[i] EXCEPT !.first = @ + k]>>)
          \o DeleteOldest(tokens, excess, i + 1)

cleanupSessionTokens(tokens, t) ==
  LET live == SelectSeq(tokens, LAMBDA e : ~Expired(e, t))
      excess == MapSize(live) - MAX_TOKENS
  IN IF MapSize(live) > MAX_TOKENS THEN DeleteOldest(live, excess, 1) ELSE live

\* setInterval(cleanupSessionTokens, 1800000)
Cleanup ==
  /\ response = Idle
  /\ now >= lastSweep + CLEANUP_INTERVAL
  /\ sessionTokens' = cleanupSessionTokens(sessionTokens, now)
  /\ lastSweep' = now
  /\ response' = Idle
  /\ UNCHANGED <<db, links, autoincrement, pages, issued, now, API_KEY, req, linkSaved, markedComplete, answered>>

\* time passes, a third of the timer's interval at a time, and never past
\* the time the timer is due before its callback has run
TickStep == CLEANUP_INTERVAL \div 3
Tick ==
  /\ response = Idle
  /\ now < MaxTicks * TickStep
  /\ now + TickStep <= lastSweep + CLEANUP_INTERVAL
  /\ now' = now + TickStep
  /\ response' = Idle
  /\ UNCHANGED <<db, links, autoincrement, sessionTokens, pages, issued, lastSweep, API_KEY, req,
                 linkSaved, markedComplete, answered>>

\* the response has left the server; the next step of the server follows
Sent ==
  /\ response # Idle
  /\ response' = Idle
  /\ UNCHANGED <<db, links, autoincrement, sessionTokens, pages, issued, now, lastSweep, API_KEY, req,
                 linkSaved, markedComplete, answered>>

\* the requests clients and workers send, with fields drawn from the given
\* sets; marks are the <<id, hash>> pairs of the worker's requests
Requests(cookies, urls, apiKeys, marks) ==
  \/ \E cookie \in cookies, url \in urls : CheckDuplicateBegin(cookie, url)
  \/ \E r \in InFlight : CheckDuplicateGet(r)
  \/ \E cookie \in cookies, url \in urls : SubmitLinkBegin(cookie, url)
  \/ \E r \in InFlight : SubmitLinkSave(r)
  \/ \E apiKey \in apiKeys : NewRecordsBegin(apiKey)
  \/ \E r \in InFlight : NewRecordsGet(r)
  \/ \E apiKey \in apiKeys, m \in marks : MarkCompleteBegin(apiKey, m[1], m[2])
  \/ \E r \in InFlight : MarkCompleteGet(r)
  \/ \E r \in InFlight : MarkCompleteUpdate(r)
  \/ \E apiKey \in apiKeys, m \in {n \in marks : n[1] # 0 /\ n[2] # <<>>} :
        MarkFailed(apiKey, m[1], m[2])

StoreHashes == HashesOf(StoreUrls)
\* the worker's id and hash: one of them missing, or an id with the digest of a URL
StoreMarks == {<<0, sha256("http://a/m")>>, <<1, <<>>>>}
              \cup ((Ids \ {0}) \X (StoreHashes \ {<<>>}))

\* the record store under requests that carry the session cookie of the
\* page load and the configured API key, all within one reading of the clock.
\* The two CREATE INDEX statements that end dbInitialise change the result of
\* no statement; they are stepped in SpecInit.
Next ==
  \/ Sent
  \/ DbOpen
  \/ DbCreateTable
  \/ GetRoot
  \/ Requests({0, 1}, StoreUrls, {"secret", "wrong"}, StoreMarks)

Spec == Init /\ [][Next]_vars

\* the browser's endpoints under every kind of url, valid session
NextUrls ==
  \/ Sent
  \/ DbOpen
  \/ DbCreateTable
  \/ GetRoot
  \/ \E url \in Urls : CheckDuplicateBegin(1, url)
  \/ \E r \in InFlight : CheckDuplicateGet(r)
  \/ \E url \in Urls : SubmitLinkBegin(1, url)
  \/ \E r \in InFlight : SubmitLinkSave(r)

SpecUrls == Init /\ [][NextUrls]_vars

\* ------------------------------------------------------------- sessions
\* a registry holding the tokens of n earlier page loads, numbered -n .. -1
\* in order of issue, all set at time 0
Bulk(n) == IF n = 0 THEN <<>> ELSE <<[first |-> 0 - n, last |-> 0 - 1, timestamp |-> 0]>>
BulkSizes == {0, MAX_TOKENS - 1, MAX_TOKENS + 1}

\* the server some time after its start: the database is initialised and
\* the registry is empty, one short of its capacity, or one over it
InitSessions ==
  /\ db = "ready"
  /\ links = {}
  /\ autoincrement = 0
  /\ \E n \in BulkSizes : sessionTokens = Bulk(n) /\ issued = Bulk(n)
  /\ pages = 0
  /\ now = 0
  /\ lastSweep = 0
  /\ API_KEY = "secret"
  /\ req = EmptyBag
  /\ response = Idle
  /\ linkSaved = [h \in HashesOf(AllUrls) |-> 0]
  /\ markedComplete = [i \in Ids |-> 0]
  /\ answered = [on |-> FALSE, seen |-> {}]

\* no cookie, the oldest and the newest token of the earlier page loads, the
\* token of the first page load of the run, and a token never issued
SessionCookies == {0, 0 - (MAX_TOKENS + 1), 0 - 1, 1, MaxPages + 1}

\* the browser's endpoints while time passes and the timer runs the sweep;
\* past the session guard a duplicate-check reads the table and a submit-link
\* is refused for its url
NextSessions ==
  \/ Sent
  \/ GetRoot
  \/ Tick
  \/ Cleanup
  \/ \E cookie \in SessionCookies : CheckDuplicateBegin(cookie, "http://a/m")
  \/ \E r \in InFlight : CheckDuplicateGet(r)
  \/ \E cookie \in SessionCookies : SubmitLinkBegin(cookie, "http://a/m?<")

SpecSessions == InitSessions /\ [][NextSessions]_vars

\* ------------------------------------------------------------- API key
\* the server started with API_KEY set in the environment, or not set
InitKeys ==
  /\ db = undefined
  /\ links = {}
  /\ autoincrement = 0
  /\ sessionTokens = <<>>
  /\ pages = 0
  /\ issued = <<>>
  /\ now = 0
  /\ lastSweep = 0
  /\ API_KEY \in {"secret", undefined}
  /\ req = EmptyBag
  /\ response = Idle
  /\ linkSaved = [h \in HashesOf(AllUrls) |-> 0]
  /\ markedComplete = [i \in Ids |-> 0]
  /\ answered = [on |-> FALSE, seen |-> {}]

\* one link is submitted; workers send requests with no key, the configured
\* key and another key
NextKeys ==
  \/ Sent
  \/ DbOpen
  \/ DbCreateTable
  \/ GetRoot
  \/ SubmitLinkBegin(1, "http://a/m")
  \/ \E r \in InFlight : SubmitLinkSave(r)
  \/ \E apiKey \in ApiKeys : NewRecordsBegin(apiKey)
  \/ \E r \in InFlight : NewRecordsGet(r)
  \/ \E apiKey \in ApiKeys : MarkCompleteBegin(apiKey, 1, sha256("http://a/m"))
  \/ \E r \in InFlight : MarkCompleteGet(r)
  \/ \E r \in InFlight : MarkCompleteUpdate(r)

SpecKeys == InitKeys /\ [][NextKeys]_vars

\* two browsers that hold a session each
Clients == {0 - 1, 0 - 2}

\* two spellings of one link, a spelling of it that is too long, another link
AgreeUrls == {"http://a/m", "http://a/m?x", "http://a/m#LONG", "http://a/b#x"}

\* the server some time after its start: the database is initialised, two
\* browsers have loaded the page, and the answers of duplicate-check are kept
InitAgree ==
  /\ db = "ready"
  /\ links = {}
  /\ autoincrement = 0
  /\ sessionTokens = Bulk(Cardinality(Clients))
  /\ issued = Bulk(Cardinality(Clients))
  /\ pages = 0
  /\ now = 0
  /\ lastSweep = 0
  /\ API_KEY = "secret"
  /\ req = EmptyBag
  /\ response = Idle
  /\ linkSaved = [h \in HashesOf(AllUrls) |-> 0]
  /\ markedComplete = [i \in Ids |-> 0]
  /\ answered = [on |-> TRUE, seen |-> {}]

\* the page script of one browser, duplicate-check and submit-link, in any
\* interleaving with the submissions of the other
NextAgree ==
  \/ Sent
  \/ \E url \in AgreeUrls : CheckDuplicateBegin(0 - 1, url)
  \/ \E r \in InFlight : CheckDuplicateGet(r)
  \/ \E cookie \in Clients, url \in AgreeUrls : SubmitLinkBegin(cookie, url)
  \/ \E r \in InFlight : SubmitLinkSave(r)

SpecAgree == InitAgree /\ [][NextAgree]_vars

\* the server from its start, dbInitialise stepped to its end, under requests
\* for one link with the session cookie of the page load and the configured
\* API key
NextInit ==
  \/ Sent
  \/ DbOpen
  \/ DbCreateTable
  \/ DbCreateIndexHash
  \/ DbCreateIndexFlag
  \/ GetRoot
  \/ Requests({1}, {"http://a/m"}, {"secret"}, {<<1, sha256("http://a/m")>>})

SpecInit == Init /\ [][NextInit]_vars


\* ================================================================== claims
ValidKey(q) == q.apiKey # undefined /\ q.apiKey = API_KEY
Mismatch == Response(400, "ID and hash do not match")
NotNew == Response(400, "Record is not new")
NotFound == Response(404, "Record not found")
Required == Response(400, "Both id and hash are required")

\* in this step in-flight request r took its step / request q came to an await
Left(r) == CopiesIn(r, req') < CopiesIn(r, req)
Entered(q) == CopiesIn(q, req') > CopiesIn(q, req)

\* C1: in every step a record's status changes only from NEW to COMPLETE or
\* from NEW to FAILED: a record is created with status NEW, stays in the
\* table, and never changes status once it is COMPLETE or FAILED.
StatusTransitions ==
  [][/\ \A n \in links' : (\E l \in links : l.id = n.id) \/ n.flag = "N"
     /\ \A l \in links : \E n \in links' : n.id = l.id
     /\ \A l \in links, n \in links' :
          (l.id = n.id /\ l.flag # n.flag) => (l.flag = "N" /\ n.flag \in {"C", "F"})]_vars

\* a second update has run on a record that was already COMPLETE
StatusTransitionsWitness ==
  /\ response.kind = "mark-complete"
  /\ response.resp = Success
  /\ markedComplete[response.id] = 2
  /\ \E l \in links : l.id = response.id /\ l.flag = "C"

\* C2: of the submit-link requests that reach the store with the same hash,
\* in any interleaving, exactly one is answered with success and inserts a
\* row; every other one is answered 409 and inserts nothing (once the
\* database is initialised).
DedupInsertOnce ==
  /\ \A h \in DOMAIN linkSaved :
       linkSaved[h] <= 1 /\ linkSaved[h] = Cardinality({l \in links : l.hash = h})
  /\ (response.kind = "submit-link" /\ response.hash # <<>> /\ TableExists)
       => /\ response.resp \in {Success, DuplicateLink}
          /\ linkSaved[response.hash] = 1

\* one of two concurrent submissions of the same normalized URL has been
\* saved while the other still awaits its insert
DedupInsertOnceWitness ==
  /\ response.kind = "submit-link"
  /\ response.resp = Success
  /\ \E r \in InFlight : r.pc = "dbSaveLink" /\ r.hash = response.hash

\* C3: of the mark-complete requests for one NEW record, at most one is
\* answered with success (the update is conditional on the record being NEW).
MarkCompleteOnce == \A i \in DOMAIN markedComplete : markedComplete[i] <= 1

\* C4: a new-records response holds exactly the rows whose flag is N at the
\* time of the query, changes no row, and never holds a record that a
\* mark-complete has completed.
NewRecordsExact ==
  [][response'.kind = "new-records" =>
       /\ links' = links
       /\ response'.resp.status = 200 =>
            LET records == response'.resp.records
            IN /\ {records[i].id : i \in 1..Len(records)} = {l.id : l \in {m \in links : m.flag = "N"}}
               /\ Len(records) = Cardinality({m \in links : m.flag = "N"})
               /\ \A i \in 1..Len(records) :
                    /\ \E l \in links : /\ l.flag = "N"
                                        /\ records[i] = [id |-> l.id, url |-> l.url,
                                                         datetime |-> l.datetime, hash |-> l.hash]
                    /\ markedComplete[records[i].id] = 0]_vars

\* a response that lists a NEW record while another record is COMPLETE
NewRecordsExactWitness ==
  /\ response.kind = "new-records"
  /\ response.resp.status = 200
  /\ Len(response.resp.records) = 1
  /\ \E l \in links : l.flag = "C"

\* C5: a mark-complete request with the API key, the id of an existing record
\* and a hash (present) that differs from the stored one is answered with the
\* 400 mismatch error and leaves the table unchanged, whatever the status.
HashMismatchRejected ==
  [][\A l \in links :
       (/\ response'.kind = "mark-complete"
        /\ ValidKey(response')
        /\ response'.id = l.id
        /\ response'.hash # <<>>
        /\ response'.hash # l.hash)
       => (response'.resp = Mismatch /\ links' = links)]_vars

\* a mismatch answered for a record that is COMPLETE
HashMismatchRejectedWitness ==
  /\ response.kind = "mark-complete"
  /\ response.resp = Mismatch
  /\ \E l \in links : l.id = response.id /\ l.flag = "C" /\ l.hash # response.hash

\* C6: with the API key, mark-complete answers 400 for a missing id or hash,
\* then 404 for an unknown id, 400 mismatch for a wrong hash, 400 'not new' for
\* a record read as non-NEW, in that order, leaving the table unchanged; a row
\* changes only under a request whose id and hash are present and match a row
\* that is NEW.  (The record is the one the handler read; once the database
\* is initialised.)
MarkCompletePreconditions ==
  [][/\ (response'.kind = "mark-complete" /\ ValidKey(response')
           /\ (response'.id = 0 \/ response'.hash = <<>>))
        => (response'.resp = Required /\ links' = links)
     /\ \A r \in InFlight :
          (r.pc = "dbGetRecordById" /\ Left(r) /\ TableExists) =>
            LET rows == {l \in links : l.id = r.id}
            IN /\ links' = links
               /\ IF rows = {} THEN response'.resp = NotFound
                  ELSE IF \E l \in rows : l.hash # r.hash THEN response'.resp = Mismatch
                  ELSE IF \E l \in rows : l.flag # "N" THEN response'.resp = NotNew
                  ELSE response' = Idle /\ Entered(Await(r, "dbMarkRecordComplete"))
     /\ \A l \in links :
          l \notin links' =>
            \E r \in InFlight : /\ r.pc = "dbMarkRecordComplete" /\ Left(r)
                                /\ ValidKey(r)
                                /\ r.id = l.id /\ r.id # 0
                                /\ r.hash = l.hash /\ r.hash # <<>>
                           /\ l.flag = "N"]_vars

\* a successful mark-complete repeated with the same id and hash: 'not new'
MarkCompletePreconditionsWitness ==
  /\ response.kind = "mark-complete"
  /\ response.resp = NotNew
  /\ markedComplete[response.id] = 1
  /\ \E l \in links : l.id = response.id /\ l.hash = response.hash

\* C7: a mark-failed request with the API key and the id and hash of an
\* existing NEW record is answered with success and makes the record FAILED.
MarkFailedTransitions ==
  [][\A l \in links :
       (/\ response'.kind = "mark-failed"
        /\ ValidKey(response')
        /\ response'.id = l.id
        /\ response'.hash = l.hash
        /\ l.flag = "N")
       => (response'.resp.success /\ \E n \in links' : n.id = l.id /\ n.flag = "F")]_vars

\* C8: no two records have the same hash and no two records have the same id.
UniqueHashAndId ==
  \A l \in links, m \in links : l # m => (l.hash # m.hash /\ l.id # m.id)

\* two records are stored and a further submission has been refused as a duplicate
UniqueHashAndIdWitness ==
  /\ Cardinality(links) = 2
  /\ response.kind = "submit-link"
  /\ response.resp = DuplicateLink

\* C9: records are never deleted; the id, hash and submission time of a record
\* never change; every step other than the update of mark-complete (page,
\* duplicate-check, submit-link, new-records) leaves each existing record as
\* it is.
RecordsFrame ==
  [][/\ \A l \in links :
          \E n \in links' : n.id = l.id /\ n.hash = l.hash /\ n.datetime = l.datetime
     /\ (~ \E r \in InFlight : r.pc = "dbMarkRecordComplete" /\ Left(r))
          => links \subseteq links']_vars

\* a record completed with its id, hash and submission time kept, next to an
\* untouched NEW record inserted after it
RecordsFrameWitness ==
  /\ \E l \in links : /\ l.flag = "C" /\ l.url = "" /\ l.id = 1
                      /\ l.datetime = toISOString(0) /\ l.hash \in StoreHashes \ {<<>>}
  /\ \E l \in links : l.flag = "N" /\ l.id = 2

\* the part of a raw URL before its query string and fragment
BeforeQueryAndFragment(url) == SubSeq(Chars(url), 1, FirstIn(Chars(url), {"?", "#"}) - 1)
DifferOnlyInQueryOrFragment(u, v) ==
  u # v /\ u # "" /\ BeforeQueryAndFragment(u) = BeforeQueryAndFragment(v)

\* the handlers' checks on the raw url pass
Accepted(url) ==
  url # "" /\ StrLength(Chars(url)) <= MAX_URL_LENGTH /\ ~processUrl(url).threw

\* u, accepted by validation, has the hash of a successfully submitted URL
Submitted(u) == Accepted(u) /\ linkSaved[sha256(processUrl(u).value)] >= 1

\* C10 as stated: any two URLs that differ only in query string or fragment
\* normalize to the same string; after one was submitted successfully,
\* submit-link of the other is answered 409 and duplicate-check isDuplicate.
SameLinkAnyQuery ==
  [][\A u \in StoreUrls :
       (/\ response'.kind \in {"submit-link", "check-duplicate"}
        /\ SessionOk(response'.cookie)
        /\ DifferOnlyInQueryOrFragment(u, response'.raw)
        /\ Submitted(u))
       => /\ processUrl(response'.raw) = processUrl(u)
          /\ response'.kind = "submit-link" => response'.resp = DuplicateLink
          /\ response'.kind = "check-duplicate" => response'.resp.isDuplicate]_vars

\* C10 amended: the same for two URLs that both pass the handlers' validation
\* (present, at most MAX_URL_LENGTH characters, no '<' or '>', http or https).
SameLinkAcceptedQuery ==
  [][\A u \in StoreUrls :
       (/\ response'.kind \in {"submit-link", "check-duplicate"}
        /\ SessionOk(response'.cookie)
        /\ DifferOnlyInQueryOrFragment(u, response'.raw)
        /\ Accepted(response'.raw)
        /\ Submitted(u))
       => /\ processUrl(response'.raw) = processUrl(u)
          /\ response'.kind = "submit-link" => response'.resp = DuplicateLink
          /\ response'.kind = "check-duplicate" => response'.resp.isDuplicate]_vars

\* http://a/m is stored and duplicate-check of http://a/m?x answers isDuplicate
SameLinkAcceptedQueryWitness ==
  /\ response.kind = "check-duplicate"
  /\ response.raw = "http://a/m?x"
  /\ response.resp.isDuplicate
  /\ \E l \in links : l.url = "http://a/m" /\ l.hash = sha256("http://a/m")


\* the url of a request is missing, too long, has '<' or '>', does not parse
\* as an absolute URL, or has a scheme other than http and https
HttpSchemes == {<<"h", "t", "t", "p", ":">>, <<"h", "t", "t", "p", "s", ":">>}
BadUrl(url) ==
  \/ url = ""
  \/ StrLength(Chars(url)) > MAX_URL_LENGTH
  \/ Includes(Chars(url), "<") \/ Includes(Chars(url), ">")
  \/ ~ParseURL(Trim(Chars(url))).ok
  \/ ParseURL(Trim(Chars(url))).protocol \notin HttpSchemes

\* C11: a submit-link request with a valid session whose url is missing,
\* longer than 2048, contains '<' or '>', does not parse as an absolute URL or
\* has a scheme other than http/https is answered 400; it inserts no record
\* and issues no statement to the database.
SubmitLinkValidation ==
  [][(/\ response'.kind = "submit-link"
      /\ SessionOk(response'.cookie)
      /\ BadUrl(response'.raw))
     => (response'.resp.status = 400 /\ links' = links /\ req' = req)]_vars

\* a url with '<' refused while its normalized form is not in the table and
\* the table holds another record
SubmitLinkValidationWitness ==
  /\ response.kind = "submit-link"
  /\ response.raw = "http://a/m?<"
  /\ response.resp = Response(400, "Invalid URL")
  /\ links # {}
  /\ \A l \in links : l.hash # sha256("http://a/m")

\* C12: a duplicate-check request with a valid session whose url is missing,
\* too long or fails normalization is answered 400 (500 only for a storage
\* failure), and duplicate-check leaves the table unchanged.
DuplicateCheckValidation ==
  [][response'.kind = "check-duplicate" =>
       /\ links' = links
       /\ (SessionOk(response'.cookie) /\ BadUrl(response'.raw))
            => response'.resp.status = 400]_vars


\* ------------------------------------------------------- session claims
Browser == {"check-duplicate", "submit-link"}
InvalidSession == Response(401, "Invalid session")

\* in this step the session guard ran on a request with this cookie and
\* refused it / let it pass to the handler
Refused(cookie) ==
  response'.kind \in Browser /\ req' = req /\ response'.cookie = cookie
    /\ response'.resp = InvalidSession
Passed(cookie) ==
  \/ response'.kind \in Browser /\ req' = req /\ response'.cookie = cookie
       /\ response'.resp.status # 401
  \/ \E q \in BagToSet(req') : Entered(q) /\ q.kind \in Browser /\ q.cookie = cookie
GuardRan(cookie) == Refused(cookie) \/ Passed(cookie)

\* the time token was set in the Map (token is in issued)
IssuedAt(token) ==
  issued[CHOOSE i \in 1..Len(issued) : issued[i].first <= token /\ token <= issued[i].last].timestamp

\* the tokens of the runs of a Map
TokensOf(tokens) == UNION {tokens[i].first..tokens[i].last : i \in 1..Len(tokens)}

\* C13: a duplicate-check or submit-link request whose cookie is absent or is
\* not a token held in the registry (never issued, or removed by a sweep) is
\* answered 401, with no statement issued to the database and no change of
\* the table; a token is in the registry, and passes the guard, from the
\* page load that issues it.
SessionGuard ==
  [][/\ \A cookie \in SessionCookies :
          GuardRan(cookie) =>
            IF cookie = 0 \/ ~Has(sessionTokens, cookie)
            THEN Refused(cookie) /\ links' = links
            ELSE Passed(cookie)
     /\ \A q \in BagToSet(req') : Entered(q) => Has(sessionTokens, q.cookie)
     /\ response'.kind = "page" => Has(sessionTokens', response'.cookie)]_vars

\* 401 for the oldest token of the earlier page loads, which the sweep
\* removed for capacity before it was an hour old
SessionGuardWitness ==
  /\ response.kind \in Browser
  /\ response.resp = InvalidSession
  /\ response.cookie = 0 - (MAX_TOKENS + 1)
  /\ Has(issued, response.cookie)
  /\ now - IssuedAt(response.cookie) <= SESSION_EXPIRY

\* C15: after a run of the sweep no token set more than SESSION_EXPIRY before
\* the sweep's now is in the registry; a token whose issue lies more than
\* SESSION_EXPIRY before a sweep is refused by the session guard after it.
SweepExpires ==
  [][/\ lastSweep' # lastSweep =>
          \A i \in 1..Len(issued) :
            now - issued[i].timestamp > SESSION_EXPIRY =>
              \A token \in issued[i].first..issued[i].last : ~Has(sessionTokens', token)
     /\ \A cookie \in SessionCookies :
          (/\ GuardRan(cookie)
           /\ Has(issued, cookie)
           /\ lastSweep - IssuedAt(cookie) > SESSION_EXPIRY)
          => Refused(cookie)]_vars

\* the token of the page load was removed by the sweep that ran more than an
\* hour after its issue, and is refused
SweepExpiresWitness ==
  /\ response.kind \in Browser
  /\ response.resp = InvalidSession
  /\ response.cookie = 1
  /\ Has(issued, 1)
  /\ lastSweep - IssuedAt(1) > SESSION_EXPIRY

\* C16: after a run of the sweep the registry holds at most MAX_TOKENS tokens:
\* if MAX_TOKENS + K tokens not older than SESSION_EXPIRY are present before
\* it, exactly the K oldest-issued are removed and the MAX_TOKENS newest
\* remain (tokens are numbered in order of issue).
SweepCapacity ==
  [][lastSweep' # lastSweep =>
       LET fresh == TokensOf(SelectSeq(sessionTokens,
                                       LAMBDA e : now - e.timestamp <= SESSION_EXPIRY))
           after == TokensOf(sessionTokens')
           removed == fresh \ after
       IN /\ Cardinality(after) <= MAX_TOKENS
          /\ after \subseteq fresh
          /\ Cardinality(fresh) <= MAX_TOKENS => after = fresh
          /\ Cardinality(fresh) > MAX_TOKENS =>
               /\ Cardinality(after) = MAX_TOKENS
               /\ \A token \in removed : \A kept \in after : token < kept]_vars

\* the sweep found two tokens too many and removed the two oldest; the token
\* of the later page load is among the MAX_TOKENS that remain
SweepCapacityWitness ==
  /\ lastSweep = now /\ now > 0 /\ now <= SESSION_EXPIRY
  /\ MapSize(sessionTokens) = MAX_TOKENS
  /\ ~Has(sessionTokens, 0 - (MAX_TOKENS + 1)) /\ ~Has(sessionTokens, 0 - MAX_TOKENS)
  /\ Has(sessionTokens, 1 - MAX_TOKENS)
  /\ Has(sessionTokens, 1) /\ IssuedAt(1) > 0

\* C19: the session guard lets a request pass if and only if its token is in
\* the registry, whatever the token's age; no request passes with a token
\* after a sweep has run more than SESSION_EXPIRY after the token's issue.
GuardIgnoresAge ==
  [][\A cookie \in SessionCookies \ {0} :
       /\ Passed(cookie) => Has(sessionTokens, cookie)
       /\ (GuardRan(cookie) /\ Has(sessionTokens, cookie)) => Passed(cookie)
       /\ (Passed(cookie) /\ Has(issued, cookie))
            => lastSweep - IssuedAt(cookie) <= SESSION_EXPIRY]_vars

\* a request passes the guard with a token set more than an hour ago that
\* the sweeps so far have left in the registry
GuardIgnoresAgeWitness ==
  /\ response.kind = "submit-link"
  /\ response.resp = Response(400, "Invalid URL")
  /\ response.cookie = 1
  /\ Has(sessionTokens, 1)
  /\ now - IssuedAt(1) > SESSION_EXPIRY
  /\ lastSweep > IssuedAt(1)


\* ------------------------------------------------------- API key claims
Worker == {"new-records", "mark-complete"}
InvalidApiKey == Response(401, "Invalid API key")
BadKey(apiKey) == apiKey = undefined \/ apiKey # API_KEY

\* C14: every new-records or mark-complete request whose apiKey is absent or
\* differs from the configured secret is answered 401, returns no records,
\* issues no statement to the database and changes no record; with the secret
\* not set no request passes the gate.
KeyGate ==
  [][/\ (response'.kind \in Worker /\ req' = req /\ BadKey(response'.apiKey))
          => /\ response'.resp = InvalidApiKey
             /\ links' = links
     /\ \A q \in BagToSet(req') :
          (Entered(q) /\ q.kind \in Worker) => (~BadKey(q.apiKey) /\ API_KEY # undefined)
     /\ (response'.kind \in Worker /\ API_KEY = undefined)
          => response'.resp = InvalidApiKey]_vars

\* the secret is not set and a request without apiKey, for a record that is
\* NEW, is answered 401
KeyGateWitness ==
  /\ API_KEY = undefined
  /\ response.kind = "mark-complete"
  /\ response.apiKey = undefined
  /\ response.resp = InvalidApiKey
  /\ \E l \in links : l.id = response.id /\ l.flag = "N"


GenericMessages ==
  {"Error saving link", "Error fetching new records", "Error marking record as complete",
   "Failed to update record"}
GenericStorageErrors ==
  (response.kind \in {"submit-link", "new-records", "mark-complete"}
     /\ response.resp.status = 500)
  => response.resp.error \in GenericMessages

\* C20: a successful mark-complete on record r makes r COMPLETE with an empty
\* url, keeps r's id, hash and submission time, and leaves every other record
\* as it is.
MarkCompleteFrame ==
  [][\A r \in InFlight :
       (r.pc = "dbMarkRecordComplete" /\ Left(r) /\ response'.resp = Success) =>
         /\ \E l \in links : l.id = r.id
         /\ \A l \in links :
              IF l.id = r.id THEN [l EXCEPT !.flag = "C", !.url = ""] \in links'
              ELSE l \in links'
         /\ Cardinality(links') = Cardinality(links)]_vars

\* record 1 has just been completed while record 2, inserted before the
\* update, keeps its url and its status
MarkCompleteFrameWitness ==
  /\ response.kind = "mark-complete"
  /\ response.resp = Success
  /\ response.id = 1
  /\ markedComplete[1] = 1
  /\ \E l \in links : l.id = 1 /\ l.flag = "C" /\ l.url = "" /\ l.hash = response.hash
  /\ \E l \in links : l.id = 2 /\ l.flag = "N" /\ l.url # ""

\* C21: a submit-link answered with success has inserted exactly one row,
\* with flag "N", whose url is the normalized form of the submitted URL and
\* whose hash is the digest of that url; every row with flag "N" has the
\* digest of its url as hash.
SubmitInsertsNormalized ==
  [][/\ \A r \in InFlight :
          (r.pc = "dbSaveLink" /\ Left(r) /\ response'.resp = Success) =>
            \E row \in links' :
              /\ row \notin links
              /\ links' = links \cup {row}
              /\ row.flag = "N"
              /\ row.url = processUrl(r.raw).value
              /\ row.hash = sha256(row.url)
     /\ \A l \in links' : l.flag = "N" => l.hash = sha256(l.url)]_vars

\* a URL with a query string was submitted successfully: its row holds the
\* URL without the query string and the digest of that
SubmitInsertsNormalizedWitness ==
  /\ response.kind = "submit-link"
  /\ response.resp = Success
  /\ response.raw = "http://a/m?x"
  /\ \E l \in links :
       l.flag = "N" /\ l.url = "http://a/m" /\ l.hash = sha256("http://a/m")
         /\ l.hash = response.hash

\* C22 as stated: rows are never deleted and keep their hash, so once a URL
\* has been submitted successfully, every later submit-link of a URL with
\* the same normalized form is answered 409 and every later duplicate-check
\* isDuplicate true, also after the row was marked complete.
DedupOutlivesCompletionAnyUrl ==
  [][/\ \A l \in links : \E m \in links' : m.id = l.id /\ m.hash = l.hash
     /\ \A h \in DOMAIN linkSaved :
          linkSaved[h] >= 1 => (linkSaved'[h] >= 1 /\ \E l \in links : l.hash = h)
     /\ (/\ response'.kind \in {"submit-link", "check-duplicate"}
         /\ SessionOk(response'.cookie)
         /\ ~processUrl(response'.raw).threw
         /\ linkSaved[sha256(processUrl(response'.raw).value)] >= 1)
        => /\ response'.kind = "submit-link" => response'.resp = DuplicateLink
           /\ response'.kind = "check-duplicate" => response'.resp.isDuplicate]_vars

\* C22 amended: the same for every later request whose URL passes the length
\* check of the two handlers (at most MAX_URL_LENGTH characters as received).
DedupOutlivesCompletion ==
  [][/\ \A l \in links : \E m \in links' : m.id = l.id /\ m.hash = l.hash
     /\ \A h \in DOMAIN linkSaved :
          linkSaved[h] >= 1 => (linkSaved'[h] >= 1 /\ \E l \in links : l.hash = h)
     /\ (/\ response'.kind \in {"submit-link", "check-duplicate"}
         /\ SessionOk(response'.cookie)
         /\ StrLength(Chars(response'.raw)) <= MAX_URL_LENGTH
         /\ ~processUrl(response'.raw).threw
         /\ linkSaved[sha256(processUrl(response'.raw).value)] >= 1)
        => /\ response'.kind = "submit-link" => response'.resp = DuplicateLink
           /\ response'.kind = "check-duplicate" => response'.resp.isDuplicate]_vars

\* the row of a link was marked complete, its url is cleared, and a later
\* submit-link of the link is answered 409
DedupOutlivesCompletionWitness ==
  /\ response.kind = "submit-link"
  /\ response.resp = DuplicateLink
  /\ markedComplete[1] >= 1
  /\ \E l \in links : l.id = 1 /\ l.flag = "C" /\ l.url = "" /\ l.hash = response.hash

\* C23 as stated: once duplicate-check has answered isDuplicate true for a
\* URL, every later submit-link of a URL with the same normalized form is
\* answered 409; after it has answered isDuplicate false to a client, a
\* submit-link of that client for the link is answered with success or 409,
\* and there is never a second row with that hash.
CheckAndSubmitAgreeAnyUrl ==
  [][/\ (/\ response'.kind = "submit-link"
         /\ SessionOk(response'.cookie)
         /\ ~processUrl(response'.raw).threw
         /\ \E c \in Clients :
              <<c, sha256(processUrl(response'.raw).value), TRUE>> \in answered.seen)
        => response'.resp = DuplicateLink
     /\ \A r \in InFlight :
          (r.pc = "dbSaveLink" /\ Left(r) /\ <<r.cookie, r.hash, FALSE>> \in answered.seen)
            => /\ response'.resp \in {Success, DuplicateLink}
               /\ response'.resp = DuplicateLink => links' = links
               /\ Cardinality({l \in links' : l.hash = r.hash}) = 1]_vars

\* C23 amended: the same, the later submit-link being of a URL that passes
\* the handler's length check (at most MAX_URL_LENGTH characters as received).
CheckAndSubmitAgree ==
  [][/\ (/\ response'.kind = "submit-link"
         /\ SessionOk(response'.cookie)
         /\ StrLength(Chars(response'.raw)) <= MAX_URL_LENGTH
         /\ ~processUrl(response'.raw).threw
         /\ \E c \in Clients :
              <<c, sha256(processUrl(response'.raw).value), TRUE>> \in answered.seen)
        => response'.resp = DuplicateLink
     /\ \A r \in InFlight :
          (r.pc = "dbSaveLink" /\ Left(r) /\ <<r.cookie, r.hash, FALSE>> \in answered.seen)
            => /\ response'.resp \in {Success, DuplicateLink}
               /\ response'.resp = DuplicateLink => links' = links
               /\ Cardinality({l \in links' : l.hash = r.hash}) = 1]_vars

\* duplicate-check has answered isDuplicate false to a client, never true,
\* and the submit-link of that client for the link is answered 409: another
\* submission of the link was stored in between
CheckAndSubmitAgreeWitness ==
  /\ response.kind = "submit-link"
  /\ response.resp = DuplicateLink
  /\ <<response.cookie, response.hash, FALSE>> \in answered.seen
  /\ <<response.cookie, response.hash, TRUE>> \notin answered.seen
  /\ Cardinality({l \in links : l.hash = response.hash}) = 1

\* the response answers one of the four API requests, and the request has
\* passed the session or API-key check and the validation of its inputs
Admitted(q) ==
  \/ q.kind \in Browser /\ SessionOk(q.cookie) /\ Accepted(q.raw)
  \/ q.kind = "new-records" /\ ValidKey(q)
  \/ q.kind = "mark-complete" /\ ValidKey(q) /\ q.id # 0 /\ q.hash # <<>>

\* C24 as stated: a duplicate-check, submit-link, new-records or
\* mark-complete request answered before dbInitialise has returned is
\* answered 500, never with success, and no row is created or changed.
InitialisationGate ==
  [][~Initialised =>
       /\ links' = links
       /\ Admitted(response') =>
            (response'.resp.status = 500 /\ ~response'.resp.success)]_vars

\* C24 amended: the same for a request answered before the database is
\* opened or before its table links exists.
TableGate ==
  [][~TableExists =>
       /\ links' = links
       /\ Admitted(response') =>
            (response'.resp.status = 500 /\ ~response'.resp.success)]_vars

\* a valid submit-link is answered 500 while db is still undefined
TableGateWitness ==
  /\ db = undefined
  /\ response.kind = "submit-link"
  /\ Admitted(response)
  /\ response.resp.status = 500
  /\ links = {}

====
